---- MODULE Spec2Model ----
(***************************************************************************)
(* pam-args: the tokenizer (src/src/tokenizer.rs), the format detector and *)
(* the conversions (src/src/conversion.rs), the string utilities           *)
(* (src/src/utils.rs), the key-value store (src/src/storage.rs) and the    *)
(* logger configuration (src/src/logging.rs).                              *)
(*                                                                         *)
(* A string is a sequence of one-character strings.                        *)
(*                                                                         *)
(* Spec      : one call of Tokenizer::tokenize_arg: the call itself, then  *)
(*             one step for every iteration of the character loop of       *)
(*             split_by_commas, then the match on the scanner state that   *)
(*             ends split_by_commas.                                       *)
(* SpecBatch : one call of Tokenizer::tokenize_args, one step for every    *)
(*             iteration of its loop over the arguments.                   *)
(* SpecCall  : one call of one of the functions without state.             *)
(* SpecUtil  : one call of split_by_commas, smart_split, smart_trim or one *)
(*             of the two from_arg_value, or escape followed by unescape;  *)
(*             the result of smart_trim can be trimmed once more.          *)
(* SpecStore : a DefaultKeyValueStore under add and clear.                 *)
(* SpecSwitch: the same with set_case_sensitive.                           *)
(* SpecLog   : threads calling logger::init and logger::config, one step   *)
(*             for every access to the OnceLock LOG_CONFIG.                *)
(*                                                                         *)
(* The variables of the other specifications stay at their idle values.    *)
(***************************************************************************)
EXTENDS Integers, Sequences, FiniteSets, TLC

VARIABLES
    config,     \* Tokenizer.config: the TokenizerConfig of the tokenizer
    arg,        \* tokenize_arg's argument
    pc,         \* "call", "scan" (inside the loop of split_by_commas), "done"
    content,    \* split_by_commas: the bracket interior being scanned
    pos,        \* split_by_commas: index of the next character of content.chars()
    state,      \* split_by_commas: the TokenizerState
    current,    \* split_by_commas: the token under construction
    result,     \* split_by_commas: the tokens completed so far
    ret,        \* what tokenize_arg returned: [kind, tokens, has_bracketed_content]
    args,           \* tokenize_args: the arguments of the call
    next_arg,       \* tokenize_args: index of the next item of `for arg in args`
    all_tokens,     \* tokenize_args: the tokens collected so far
    has_bracketed,  \* tokenize_args: whether an argument so far was bracketed
    batch_ret,      \* what tokenize_args returned
    call,       \* a function without state and the arguments it is called with
    out,        \* what that call returned
    store,            \* DefaultKeyValueStore.store: normalized key -> Option<String>
    case_sensitive,   \* DefaultKeyValueStore.case_sensitive
    added,            \* the add calls since the store was created or cleared
    LOG_CONFIG,   \* logger::LOG_CONFIG, a OnceLock: [once, value]
    threads,      \* each thread's place in its call of logger::init or config
    winner,       \* the call whose value LOG_CONFIG was given first
    last_init,    \* the argument of the latest init call that has returned
    observed      \* the values the config calls have returned

\* the variables of one call of tokenize_arg, but for the configuration
scanVars == <<arg, pc, content, pos, state, current, result, ret>>

batchVars == <<args, next_arg, all_tokens, has_bracketed, batch_ret>>

callVars == <<call, out>>

storeVars == <<store, case_sensitive, added>>

logVars == <<LOG_CONFIG, threads, winner, last_init, observed>>

vars == <<config, scanVars, batchVars, callVars, storeVars, logVars>>

(***************************************************************************)
(* Bounds of the model.                                                    *)
(***************************************************************************)
\* longest argument drawn without regard to its shape
MaxLen == 3
\* longest bracket interior drawn between an open and a close bracket
MaxInterior == 5

(***************************************************************************)
(* TokenizerConfig and the characters the arguments are drawn from.        *)
(***************************************************************************)
DefaultConfig ==
    [escape_char   |-> "\\", single_quote  |-> "'", double_quote |-> "\"",
     open_bracket  |-> "[",  close_bracket |-> "]", delimiter    |-> ","]

\* the configuration of test_custom_config, with ~ for its backtick (a
\* character a TLA+ string cannot hold)
CustomConfig ==
    [escape_char   |-> "&", single_quote  |-> "~", double_quote |-> "*",
     open_bracket  |-> "{", close_bracket |-> "}", delimiter    |-> ";"]

Configs == {DefaultConfig, CustomConfig}

\* a character no configuration gives a meaning to; it is whitespace
Ordinary == {" "}

ConfigChars(cfg) ==
    {cfg.escape_char, cfg.single_quote, cfg.double_quote,
     cfg.open_bracket, cfg.close_bracket, cfg.delimiter}

Alphabet(cfg) == ConfigChars(cfg) \cup Ordinary

Strings(S, n) == UNION {[1..k -> S] : k \in 0..n}

\* the arguments of a call: every short string, and every bracketed string
\* around a longer interior
Args(cfg) ==
    Strings(Alphabet(cfg), MaxLen)
      \cup {<<cfg.open_bracket>> \o s \o <<cfg.close_bracket>> :
              s \in Strings(Alphabet(cfg), MaxInterior)}

(***************************************************************************)
(* str::starts_with(char), str::ends_with(char), String::is_empty.         *)
(***************************************************************************)
\* a slip: the open bracket looked for anywhere in the argument
StartsWith_Anywhere(s, c) == \E i \in 1..Len(s) : s[i] = c

StartsWith(s, c) == Len(s) > 0 /\ s[1] = c

\* a slip: the character looked for anywhere in the string
EndsWith_Anywhere(s, c) == \E i \in 1..Len(s) : s[i] = c

EndsWith(s, c) == Len(s) > 0 /\ s[Len(s)] = c

(***************************************************************************)
(* Result<TokenizationResult>.                                             *)
(***************************************************************************)
Pending == [kind |-> "Pending", tokens |-> <<>>, has_bracketed_content |-> FALSE]

Ok(tokens, bracketed) ==
    [kind |-> "Ok", tokens |-> tokens, has_bracketed_content |-> bracketed]

Err(kind) == [kind |-> kind, tokens |-> <<>>, has_bracketed_content |-> FALSE]

(***************************************************************************)
(* The idle values of the variables a specification does not use.          *)
(***************************************************************************)
IdleScan ==
    /\ arg = <<>>
    /\ pc = "idle"
    /\ content = <<>>
    /\ pos = 1
    /\ state = "Normal"
    /\ current = <<>>
    /\ result = <<>>
    /\ ret = Pending

IdleBatch ==
    /\ args = <<>>
    /\ next_arg = 1
    /\ all_tokens = <<>>
    /\ has_bracketed = FALSE
    /\ batch_ret = Pending

IdleCall ==
    /\ call = [fn |-> "none"]
    /\ out = [kind |-> "Pending"]

IdleStore ==
    /\ store = <<>>
    /\ case_sensitive = TRUE
    /\ added = <<>>

IdleLog ==
    /\ LOG_CONFIG = [once |-> "Incomplete", value |-> [some |-> FALSE]]
    /\ threads = <<>>
    /\ winner = [some |-> FALSE]
    /\ last_init = [some |-> FALSE]
    /\ observed = {}

(***************************************************************************)
(* extract_bracket_content: the interior, or InvalidInput.                 *)
(***************************************************************************)
\* a slip: the check for a trailing escape character left out
ExtractBracketContent_NoEscapeCheck(cfg, bracketed) ==
    IF ~StartsWith(bracketed, cfg.open_bracket)
         \/ ~EndsWith(bracketed, cfg.close_bracket)
    THEN [ok |-> FALSE, err |-> "InvalidInput", content |-> <<>>]
    ELSE [ok |-> TRUE, err |-> "none",
          content |-> SubSeq(bracketed, 2, Len(bracketed) - 1)]

ExtractBracketContent(cfg, bracketed) ==
    IF ~StartsWith(bracketed, cfg.open_bracket)
         \/ ~EndsWith(bracketed, cfg.close_bracket)
    THEN [ok |-> FALSE, err |-> "InvalidInput", content |-> <<>>]
    ELSE LET inner == SubSeq(bracketed, 2, Len(bracketed) - 1) IN
         IF EndsWith(inner, cfg.escape_char)
         THEN [ok |-> FALSE, err |-> "InvalidInput", content |-> <<>>]
         ELSE [ok |-> TRUE, err |-> "none", content |-> inner]

(***************************************************************************)
(* split_by_commas: one iteration of `for c in content.chars()`.           *)
(* st = [state, current, result, err]; the arms are tried in the order of  *)
(* the match.                                                              *)
(***************************************************************************)
\* a slip: the escape character is consumed instead of kept in the token
Push_Unescaping(st, c, next) ==
    IF next = "EscapeSequence" THEN [st EXCEPT !.state = next]
    ELSE [st EXCEPT !.current = Append(@, c), !.state = next]

\* current.push(ch); state = next
Push(st, c, next) ==
    [st EXCEPT !.current = Append(@, c), !.state = next]

\* result.push(current.to_string()); current = String::new()
EndToken(st) ==
    [st EXCEPT !.result = Append(@, st.current), !.current = <<>>]

ScanStep(cfg, st, c) ==
    IF st.state = "Normal" /\ c = cfg.escape_char
        THEN Push(st, c, "EscapeSequence")
    ELSE IF st.state = "EscapeSequence"
        THEN Push(st, c, "Normal")
    ELSE IF st.state = "Normal" /\ c = cfg.single_quote
        THEN Push(st, c, "InSingleQuote")
    ELSE IF st.state = "InSingleQuote" /\ c = cfg.escape_char
        THEN Push(st, c, "EscapeSequence")
    ELSE IF st.state = "InSingleQuote" /\ c = cfg.single_quote
        THEN Push(st, c, "Normal")
    ELSE IF st.state = "InSingleQuote"
        THEN Push(st, c, "InSingleQuote")
    ELSE IF st.state = "Normal" /\ c = cfg.double_quote
        THEN Push(st, c, "InDoubleQuote")
    ELSE IF st.state = "InDoubleQuote" /\ c = cfg.escape_char
        THEN Push(st, c, "EscapeSequence")
    ELSE IF st.state = "InDoubleQuote" /\ c = cfg.double_quote
        THEN Push(st, c, "Normal")
    ELSE IF st.state = "InDoubleQuote"
        THEN Push(st, c, "InDoubleQuote")
    ELSE IF st.state = "InBracket"
        THEN [st EXCEPT !.err = "NestedBrackets"]
    ELSE IF st.state = "Normal" /\ c = cfg.delimiter
        THEN EndToken(st)
    ELSE Push(st, c, "Normal")

(***************************************************************************)
(* split_by_commas: the match on the state after the loop.                 *)
(***************************************************************************)
\* a slip: the last token pushed even when it is empty after a delimiter
FinishNormal_AlwaysLast(cur, res, ends_with_delimiter) ==
    IF ends_with_delimiter THEN Append(Append(res, cur), <<>>)
    ELSE Append(res, cur)

\* the TokenizerState::Normal arm: the tokens returned
FinishNormal(cur, res, ends_with_delimiter) ==
    LET withLast == IF cur # <<>> \/ res = <<>> THEN Append(res, cur) ELSE res
    IN  IF ends_with_delimiter THEN Append(withLast, <<>>) ELSE withLast

FinishScan(cfg, cont, st, cur, res) ==
    IF st = "Normal"
    THEN Ok(FinishNormal(cur, res, EndsWith(cont, cfg.delimiter)), TRUE)
    ELSE Err("UnclosedDelimiter")

(***************************************************************************)
(* The state machine.                                                      *)
(***************************************************************************)
Init ==
    /\ config \in Configs
    /\ arg \in Args(config)
    /\ pc = "call"
    /\ content = <<>>
    /\ pos = 1
    /\ state = "Normal"
    /\ current = <<>>
    /\ result = <<>>
    /\ ret = Pending
    /\ IdleBatch
    /\ IdleCall
    /\ IdleStore
    /\ IdleLog

\* tokenize_arg, down to the first iteration of the loop of split_by_commas
TokenizeArg ==
    /\ pc = "call"
    /\ LET ext == ExtractBracketContent(config, arg)
           goScan == /\ StartsWith(arg, config.open_bracket)
                     /\ EndsWith(arg, config.close_bracket)
                     /\ ext.ok
                     /\ ext.content # <<>>
       IN  /\ pc' = IF goScan THEN "scan" ELSE "done"
           /\ content' = IF goScan THEN ext.content ELSE content
           /\ ret' = IF ~StartsWith(arg, config.open_bracket)
                         THEN Ok(<<arg>>, FALSE)
                     ELSE IF ~EndsWith(arg, config.close_bracket)
                         THEN Err("UnclosedDelimiter")
                     ELSE IF ~ext.ok
                         THEN Err(ext.err)
                     ELSE IF ext.content = <<>>
                         THEN Ok(<< <<>> >>, TRUE)
                     ELSE Pending
    /\ UNCHANGED <<config, arg, pos, state, current, result>>
    /\ UNCHANGED <<batchVars, callVars, storeVars, logVars>>

\* one iteration of the loop of split_by_commas
ScanChar ==
    /\ pc = "scan"
    /\ pos <= Len(content)
    /\ LET st == ScanStep(config,
                          [state |-> state, current |-> current,
                           result |-> result, err |-> "none"],
                          content[pos])
       IN  IF st.err # "none"
           THEN /\ pc' = "done"
                /\ ret' = Err(st.err)
                /\ UNCHANGED <<pos, state, current, result>>
           ELSE /\ pos' = pos + 1
                /\ state' = st.state
                /\ current' = st.current
                /\ result' = st.result
                /\ UNCHANGED <<pc, ret>>
    /\ UNCHANGED <<config, arg, content>>
    /\ UNCHANGED <<batchVars, callVars, storeVars, logVars>>

\* the end of the loop: the match on the state, and tokenize_arg's return
EndScan ==
    /\ pc = "scan"
    /\ pos > Len(content)
    /\ pc' = "done"
    /\ ret' = FinishScan(config, content, state, current, result)
    /\ UNCHANGED <<config, arg, content, pos, state, current, result>>
    /\ UNCHANGED <<batchVars, callVars, storeVars, logVars>>

Next == TokenizeArg \/ ScanChar \/ EndScan

Spec == Init /\ [][Next]_vars

(***************************************************************************)
(* The loop of split_by_commas run over the first n characters of s: the   *)
(* scanner's [state, current, result, err] at that point.                  *)
(***************************************************************************)
RECURSIVE ScanPrefix(_, _, _)
ScanPrefix(cfg, s, n) ==
    IF n = 0
    THEN [state |-> "Normal", current |-> <<>>, result |-> <<>>, err |-> "none"]
    ELSE ScanStep(cfg, ScanPrefix(cfg, s, n - 1), s[n])

(***************************************************************************)
(* Vocabulary of the properties.                                           *)
(***************************************************************************)
\* a starts with the open bracket and ends with the close bracket
Bracketed(cfg, a) ==
    Len(a) >= 2 /\ a[1] = cfg.open_bracket /\ a[Len(a)] = cfg.close_bracket

\* what lies between the two brackets
Interior(a) == SubSeq(a, 2, Len(a) - 1)

Occurs(c, s) == \E i \in 1..Len(s) : s[i] = c

QuoteStates == {"InSingleQuote", "InDoubleQuote"}

\* the tokens, one after the other
RECURSIVE Flatten(_)
Flatten(tokens) ==
    IF tokens = <<>> THEN <<>> ELSE Head(tokens) \o Flatten(Tail(tokens))

\* s without the characters at the positions P
RECURSIVE RemoveAt(_, _)
RemoveAt(s, P) ==
    IF s = <<>> THEN <<>>
    ELSE LET n == Len(s)
             front == RemoveAt(SubSeq(s, 1, n - 1), P)
         IN  IF n \in P THEN front ELSE Append(front, s[n])

\* s cut at every d: the pieces between the d's, empty ones included
RECURSIVE SplitOn(_, _)
SplitOn(s, d) ==
    IF ~Occurs(d, s) THEN <<s>>
    ELSE LET i == CHOOSE j \in 1..Len(s) :
                      s[j] = d /\ \A k \in 1..(j - 1) : s[k] # d
         IN  <<SubSeq(s, 1, i - 1)>> \o SplitOn(SubSeq(s, i + 1, Len(s)), d)

(***************************************************************************)
(* Quoting and escaping as the properties read a bracket interior: a       *)
(* quoted section runs from a quote character met outside quotes to the    *)
(* next occurrence of the same quote character that is not escaped; an     *)
(* escape character that is not itself escaped escapes the character       *)
(* after it, inside quotes and outside.                                    *)
(*   quote   : "Normal", "InSingleQuote" or "InDoubleQuote"                *)
(*   escaped : the next character is escaped                               *)
(***************************************************************************)
ReadStep(cfg, r, c) ==
    IF r.escaped THEN [r EXCEPT !.escaped = FALSE]
    ELSE IF c = cfg.escape_char THEN [r EXCEPT !.escaped = TRUE]
    ELSE IF r.quote = "Normal" /\ c = cfg.single_quote
        THEN [r EXCEPT !.quote = "InSingleQuote"]
    ELSE IF r.quote = "Normal" /\ c = cfg.double_quote
        THEN [r EXCEPT !.quote = "InDoubleQuote"]
    ELSE IF r.quote = "InSingleQuote" /\ c = cfg.single_quote
        THEN [r EXCEPT !.quote = "Normal"]
    ELSE IF r.quote = "InDoubleQuote" /\ c = cfg.double_quote
        THEN [r EXCEPT !.quote = "Normal"]
    ELSE r

RECURSIVE ReadPrefix(_, _, _)
ReadPrefix(cfg, s, n) ==
    IF n = 0 THEN [quote |-> "Normal", escaped |-> FALSE]
    ELSE ReadStep(cfg, ReadPrefix(cfg, s, n - 1), s[n])

\* the character at i is neither escaped nor inside quotes
Bare(cfg, s, i) ==
    ReadPrefix(cfg, s, i - 1) = [quote |-> "Normal", escaped |-> FALSE]

\* the character at i lies between an opening quote and its closing quote
InsideQuotes(cfg, s, i) ==
    /\ ReadPrefix(cfg, s, i - 1).quote \in QuoteStates
    /\ \E k \in (i + 1)..Len(s) : ReadPrefix(cfg, s, k).quote = "Normal"

(***************************************************************************)
(* Properties of tokenize_arg.                                             *)
(***************************************************************************)
Done == pc = "done"

\* C1: an argument that does not start with the open bracket (the empty
\* string and arguments with quote, escape, delimiter or bracket characters
\* further on included) gives exactly one token, the argument unchanged,
\* and has_bracketed_content = false.
C1_PlainArgIsOneToken ==
    (Done /\ (arg = <<>> \/ arg[1] # config.open_bracket))
        => ret = Ok(<<arg>>, FALSE)

C1_Witness ==
    /\ Done
    /\ Len(arg) >= 2
    /\ arg[1] # config.open_bracket
    /\ \E i \in 2..Len(arg) : arg[i] \in ConfigChars(config)
    /\ ret.kind = "Ok"

\* C2: a list delimiter that stands between an opening quote and its
\* matching closing quote never ends a token: the step that reads it leaves
\* the list of completed tokens as it was.
C2_QuotedDelimiterNeverSplits ==
    [][(/\ pc = "scan"
        /\ pos <= Len(content)
        /\ content[pos] = config.delimiter
        /\ InsideQuotes(config, content, pos))
           => result' = result]_vars

\* C3: the character after an escape character is appended and the scanner
\* is then back in the state in which it met the escape character: the
\* quote state when that was a quote state, Normal when it was Normal.
C3_EscapeReturnsToPriorState ==
    (/\ pc = "scan"
     /\ pos >= 3
     /\ content[pos - 2] = config.escape_char
     /\ ScanPrefix(config, content, pos - 3).state
            \in QuoteStates \cup {"Normal"})
        => /\ state = ScanPrefix(config, content, pos - 3).state
           /\ current = Append(ScanPrefix(config, content, pos - 2).current,
                               content[pos - 1])

\* C4: a successfully tokenized bracketed argument has one token more than
\* its interior has list delimiters that are neither escaped nor inside
\* quotes; an escaped delimiter is no split point, the last interior
\* character included.
C4_TokenCountIsBareDelimitersPlusOne ==
    (Done /\ ret.kind = "Ok" /\ ret.has_bracketed_content)
        => Len(ret.tokens) =
             1 + Cardinality({i \in 1..Len(Interior(arg)) :
                                /\ Interior(arg)[i] = config.delimiter
                                /\ Bare(config, Interior(arg), i)})

\* C5: an open bracket inside the interior that is neither escaped nor
\* inside quotes makes tokenize_arg fail with NestedBrackets, with no tokens
\* (stated for the interiors that reach the scan: those that do not end
\* with an escape character).
C5_NestedBracketFails ==
    (/\ Done
     /\ Bracketed(config, arg)
     /\ ~EndsWith(Interior(arg), config.escape_char)
     /\ \E i \in 1..Len(Interior(arg)) :
           /\ Interior(arg)[i] = config.open_bracket
           /\ Bare(config, Interior(arg), i))
        => ret = Err("NestedBrackets")

\* C6: an interior without quote, escape and bracket characters and with N
\* list delimiters gives the N+1 pieces between the delimiters, in order,
\* empty pieces included (one empty token for the empty interior), and
\* has_bracketed_content = true.
PlainInterior(cfg, s) ==
    \A i \in 1..Len(s) :
        s[i] \notin {cfg.escape_char, cfg.single_quote, cfg.double_quote,
                     cfg.open_bracket, cfg.close_bracket}

C6_PlainInteriorSplitsAtEveryDelimiter ==
    (Done /\ Bracketed(config, arg) /\ PlainInterior(config, Interior(arg)))
        => /\ ret = Ok(SplitOn(Interior(arg), config.delimiter), TRUE)
           /\ Len(ret.tokens) =
                1 + Cardinality({i \in 1..Len(Interior(arg)) :
                                   Interior(arg)[i] = config.delimiter})

\* a leading, two adjacent and a trailing delimiter
C6_Witness ==
    /\ Done
    /\ Bracketed(config, arg)
    /\ PlainInterior(config, Interior(arg))
    /\ Len(Interior(arg)) = 5
    /\ \A i \in {1, 3, 4, 5} : Interior(arg)[i] = config.delimiter
    /\ Interior(arg)[2] # config.delimiter
    /\ Len(ret.tokens) = 5

\* C7: the tokens of a successfully tokenized bracketed argument, one after
\* the other, are the interior without the list delimiters the scanner met
\* in Normal state: nothing else is dropped, trimmed, unescaped or unquoted.
C7_TokensAreInteriorWithoutSplitters ==
    (Done /\ ret.kind = "Ok" /\ ret.has_bracketed_content)
        => Flatten(ret.tokens) =
             RemoveAt(Interior(arg),
                      {i \in 1..Len(Interior(arg)) :
                         /\ Interior(arg)[i] = config.delimiter
                         /\ ScanPrefix(config, Interior(arg), i - 1).state
                              = "Normal"})

\* two tokens that hold an escape character, whitespace and quotes
C7_Witness ==
    /\ Done
    /\ ret.kind = "Ok"
    /\ Len(ret.tokens) = 2
    /\ Occurs(config.escape_char, ret.tokens[1])
    /\ Occurs(" ", ret.tokens[1])
    /\ Occurs(config.single_quote, ret.tokens[2])

\* C8: an argument that starts with the open bracket and does not end with
\* the close bracket fails with UnclosedDelimiter, whatever follows the open
\* bracket; the argument that is only the open bracket included.
C8_UnclosedBracketFails ==
    (/\ Done
     /\ Len(arg) >= 1
     /\ arg[1] = config.open_bracket
     /\ arg[Len(arg)] # config.close_bracket)
        => ret = Err("UnclosedDelimiter")

C8_Witness ==
    /\ Done
    /\ arg = <<config.open_bracket>>
    /\ ret.kind = "UnclosedDelimiter"

\* C9: when the interior that is scanned ends inside a quoted section (an
\* opening quote with no matching closing quote), tokenize_arg fails with
\* UnclosedDelimiter, with no tokens.
C9_UnclosedQuoteFails ==
    (/\ Done
     /\ Bracketed(config, arg)
     /\ ~EndsWith(Interior(arg), config.escape_char)
     /\ ReadPrefix(config, Interior(arg), Len(Interior(arg))).quote
            \in QuoteStates)
        => ret = Err("UnclosedDelimiter")

\* C10: a bracketed argument whose interior ends with an escape character
\* fails with InvalidInput (the trailing-escape error), not with
\* UnclosedDelimiter.
C10_TrailingEscapeIsInvalidInput ==
    (/\ Done
     /\ Bracketed(config, arg)
     /\ Len(arg) >= 3
     /\ arg[Len(arg) - 1] = config.escape_char)
        => ret = Err("InvalidInput")

C10_Witness ==
    /\ Done
    /\ Bracketed(config, arg)
    /\ Len(arg) >= 4
    /\ arg[Len(arg) - 1] = config.escape_char
    /\ ret.kind = "InvalidInput"

(***************************************************************************)
(* tokenize_arg as one step: what the call returns for the argument a.     *)
(***************************************************************************)
TokenizeArgResult(cfg, a) ==
    IF ~StartsWith(a, cfg.open_bracket) THEN Ok(<<a>>, FALSE)
    ELSE IF ~EndsWith(a, cfg.close_bracket) THEN Err("UnclosedDelimiter")
    ELSE LET ext == ExtractBracketContent(cfg, a) IN
         IF ~ext.ok THEN Err(ext.err)
         ELSE IF ext.content = <<>> THEN Ok(<< <<>> >>, TRUE)
         ELSE LET st == ScanPrefix(cfg, ext.content, Len(ext.content)) IN
              IF st.err # "none" THEN Err(st.err)
              ELSE FinishScan(cfg, ext.content, st.state, st.current, st.result)

(***************************************************************************)
(* tokenize_args.                                                          *)
(***************************************************************************)
\* longest batch of arguments
MaxBatch == 3

\* the arguments of a batch: plain ones, bracketed ones, and ones that fail
\* with an unclosed bracket, a trailing escape and an unclosed quote
BatchArgs(cfg) ==
    { <<>>,
      <<" ">>,
      <<cfg.open_bracket, cfg.close_bracket>>,
      <<cfg.open_bracket, " ", cfg.delimiter, cfg.delimiter, cfg.close_bracket>>,
      <<cfg.open_bracket>>,
      <<cfg.open_bracket, cfg.escape_char, cfg.close_bracket>>,
      <<cfg.open_bracket, cfg.single_quote, cfg.close_bracket>> }

\* a slip: the flag of the last argument replaces the flag so far
BatchStep_FlagOfLast(cfg, acc, a) ==
    LET r == TokenizeArgResult(cfg, a) IN
    IF r.kind # "Ok" THEN [acc EXCEPT !.ret = Err(r.kind)]
    ELSE [acc EXCEPT !.all_tokens = @ \o r.tokens,
                     !.has_bracketed = r.has_bracketed_content]

\* a slip: an argument that fails is skipped and the loop goes on
BatchStep_SkipFailed(cfg, acc, a) ==
    LET r == TokenizeArgResult(cfg, a) IN
    IF r.kind # "Ok" THEN acc
    ELSE [acc EXCEPT !.all_tokens = @ \o r.tokens,
                     !.has_bracketed = @ \/ r.has_bracketed_content]

\* one iteration of `for arg in args`: acc = [all_tokens, has_bracketed, ret],
\* where ret leaves Pending when `?` returns the error of tokenize_arg
BatchStep(cfg, acc, a) ==
    LET r == TokenizeArgResult(cfg, a) IN
    IF r.kind # "Ok" THEN [acc EXCEPT !.ret = Err(r.kind)]
    ELSE [acc EXCEPT !.all_tokens = @ \o r.tokens,
                     !.has_bracketed = @ \/ r.has_bracketed_content]

InitBatch ==
    /\ config \in Configs
    /\ args \in Strings(BatchArgs(config), MaxBatch)
    /\ next_arg = 1
    /\ all_tokens = <<>>
    /\ has_bracketed = FALSE
    /\ batch_ret = Pending
    /\ IdleScan
    /\ IdleCall
    /\ IdleStore
    /\ IdleLog

\* one iteration of the loop of tokenize_args
NextArgument ==
    /\ batch_ret = Pending
    /\ next_arg <= Len(args)
    /\ LET acc == BatchStep(config,
                            [all_tokens |-> all_tokens,
                             has_bracketed |-> has_bracketed,
                             ret |-> batch_ret],
                            args[next_arg])
       IN  /\ all_tokens' = acc.all_tokens
           /\ has_bracketed' = acc.has_bracketed
           /\ batch_ret' = acc.ret
           /\ next_arg' = IF acc.ret = Pending THEN next_arg + 1 ELSE next_arg
    /\ UNCHANGED <<config, args, scanVars, callVars, storeVars, logVars>>

\* the end of the loop: tokenize_args returns what it collected
ReturnBatch ==
    /\ batch_ret = Pending
    /\ next_arg > Len(args)
    /\ batch_ret' = Ok(all_tokens, has_bracketed)
    /\ UNCHANGED <<config, args, next_arg, all_tokens, has_bracketed>>
    /\ UNCHANGED <<scanVars, callVars, storeVars, logVars>>

NextBatch == NextArgument \/ ReturnBatch

SpecBatch == InitBatch /\ [][NextBatch]_vars

(***************************************************************************)
(* Properties of tokenize_args.                                            *)
(***************************************************************************)
\* what tokenize_arg returns for each of the first n arguments
ResultsOf(cfg, as, n) == [i \in 1..n |-> TokenizeArgResult(cfg, as[i])]

Failing(cfg, as) ==
    {i \in 1..Len(as) : TokenizeArgResult(cfg, as[i]).kind # "Ok"}

First(S) == CHOOSE i \in S : \A j \in S : i <= j

\* C11: when every argument tokenizes, tokenize_args returns the tokens of
\* the arguments one after the other, in the order of the arguments, and
\* has_bracketed_content is the OR of the arguments' flags (false for the
\* empty batch, and not reset by a later plain argument); the same holds of
\* what it has collected after every iteration.
C11_BatchIsConcatenationAndOr ==
    /\ (batch_ret = Pending)
        => LET rs == ResultsOf(config, args, next_arg - 1) IN
           /\ next_arg - 1 <= Len(args)
           /\ all_tokens = Flatten([i \in 1..(next_arg - 1) |-> rs[i].tokens])
           /\ has_bracketed =
                (\E i \in 1..(next_arg - 1) : rs[i].has_bracketed_content)
    /\ (batch_ret # Pending /\ Failing(config, args) = {})
        => LET rs == ResultsOf(config, args, Len(args)) IN
           batch_ret =
             Ok(Flatten([i \in 1..Len(args) |-> rs[i].tokens]),
                \E i \in 1..Len(args) : rs[i].has_bracketed_content)

\* a bracketed argument, then two plain ones
C11_Witness ==
    /\ batch_ret.kind = "Ok"
    /\ Len(args) = 3
    /\ Bracketed(config, args[1])
    /\ Len(TokenizeArgResult(config, args[1]).tokens) = 3
    /\ args[2] = <<" ">>
    /\ args[3] = <<>>
    /\ batch_ret.has_bracketed_content

\* C12: when an argument fails, tokenize_args returns the error tokenize_arg
\* gives for the first failing argument and no tokens, and it has then
\* looked at no argument after that one.
C12_BatchFailsWithFirstError ==
    (batch_ret # Pending /\ Failing(config, args) # {})
        => LET i == First(Failing(config, args)) IN
           /\ batch_ret = Err(TokenizeArgResult(config, args[i]).kind)
           /\ batch_ret.tokens = <<>>
           /\ next_arg = i

\* a good argument with tokens, a failing one, one failing in another way
C12_Witness ==
    /\ batch_ret # Pending
    /\ Len(args) = 3
    /\ TokenizeArgResult(config, args[1]).kind = "Ok"
    /\ Len(TokenizeArgResult(config, args[1]).tokens) = 3
    /\ TokenizeArgResult(config, args[2]).kind = "UnclosedDelimiter"
    /\ TokenizeArgResult(config, args[3]).kind = "InvalidInput"
    /\ batch_ret.kind = "UnclosedDelimiter"

(***************************************************************************)
(* The pure functions of conversion.rs and utils.rs: one call, one return. *)
(***************************************************************************)
\* Option<T>
None == [some |-> FALSE]

Some(v) == [some |-> TRUE, value |-> v]

\* what a call has returned: a value, or Err(Error::error(payload))
Returned(v) == [kind |-> "Ok", value |-> v]

Failed(error, payload) == [kind |-> "Err", error |-> error, payload |-> payload]

(***************************************************************************)
(* format::detect and format::validate.                                    *)
(***************************************************************************)
\* longest token given to detect
MaxToken == 4

\* longest list of allowed formats
MaxAllowed == 2

TokenChars == {"=", "a", "b"}

Tokens == Strings(TokenChars, MaxToken)

AllowedKeyValueFormats == {"KeyValue", "KeyOnly", "KeyEquals", "KeyAll"}

\* a slip: str::rfind, the index of the last c
Find_Last(s, c) ==
    IF Occurs(c, s)
    THEN Some(CHOOSE i \in 1..Len(s) :
                /\ s[i] = c
                /\ \A j \in (i + 1)..Len(s) : s[j] # c)
    ELSE None

\* str::find: the index of the first c of s
Find(s, c) ==
    IF Occurs(c, s)
    THEN Some(CHOOSE i \in 1..Len(s) :
                /\ s[i] = c
                /\ \A j \in 1..(i - 1) : s[j] # c)
    ELSE None

\* a slip: nothing after the '=' is reported as no value at all
Detect_KeyEqualsAbsent(input) ==
    LET found == Find(input, "=") IN
    IF found.some
    THEN LET at == found.value
             key == SubSeq(input, 1, at - 1)
             value_part == SubSeq(input, at + 1, Len(input))
         IN  IF value_part = <<>>
             THEN [format |-> "KeyEquals", key |-> key, value |-> None]
             ELSE [format |-> "KeyValue", key |-> key, value |-> Some(value_part)]
    ELSE [format |-> "KeyOnly", key |-> input, value |-> None]

Detect(input) ==
    LET found == Find(input, "=") IN
    IF found.some
    THEN LET at == found.value
             key == SubSeq(input, 1, at - 1)
             value_part == SubSeq(input, at + 1, Len(input))
         IN  IF value_part = <<>>
             THEN [format |-> "KeyEquals", key |-> key, value |-> Some(<<>>)]
             ELSE [format |-> "KeyValue", key |-> key, value |-> Some(value_part)]
    ELSE [format |-> "KeyOnly", key |-> input, value |-> None]

\* AllowedKeyValueFormats::is_compatible_with: equal tags, widened by KeyAll
IsCompatibleWith(a, b) == a = b \/ a = "KeyAll" \/ b = "KeyAll"

\* AllowedKeyValueFormats::is_compatible_with_any
IsCompatibleWithAny(a, formats) ==
    \E i \in 1..Len(formats) : IsCompatibleWith(a, formats[i])

\* a slip: an empty list of allowed formats allows every format
Validate_EmptyListAllowsAll(detected, allowed_formats) ==
    IF \/ allowed_formats = <<>>
       \/ IsCompatibleWithAny(detected.format, allowed_formats)
    THEN Returned(<<>>)
    ELSE Failed("InvalidKeyValue",
                [key |-> detected.key, expected |-> allowed_formats,
                 got |-> detected.format])

\* the payload stands for the message, which names key, list and format
Validate(detected, allowed_formats) ==
    IF IsCompatibleWithAny(detected.format, allowed_formats)
    THEN Returned(<<>>)
    ELSE Failed("InvalidKeyValue",
                [key |-> detected.key, expected |-> allowed_formats,
                 got |-> detected.format])

(***************************************************************************)
(* Characters: letters and their case, whitespace, decimal digits.         *)
(***************************************************************************)
UpperCase ==
    <<"A", "B", "C", "D", "E", "F", "G", "H", "I", "J", "K", "L", "M",
      "N", "O", "P", "Q", "R", "S", "T", "U", "V", "W", "X", "Y", "Z">>

LowerCase ==
    <<"a", "b", "c", "d", "e", "f", "g", "h", "i", "j", "k", "l", "m",
      "n", "o", "p", "q", "r", "s", "t", "u", "v", "w", "x", "y", "z">>

IndexOf(c, table) == CHOOSE i \in 1..Len(table) : table[i] = c

ToLowerChar(c) ==
    IF Occurs(c, UpperCase) THEN LowerCase[IndexOf(c, UpperCase)] ELSE c

ToUpperChar(c) ==
    IF Occurs(c, LowerCase) THEN UpperCase[IndexOf(c, LowerCase)] ELSE c

\* a slip: the string is compared as it is written
ToLowercase_Identity(s) == s

\* str::to_lowercase
ToLowercase(s) == [i \in 1..Len(s) |-> ToLowerChar(s[i])]

\* the ways of writing the word w in upper and lower case
CaseVariants(w) ==
    {[i \in 1..Len(w) |-> IF i \in U THEN ToUpperChar(w[i]) ELSE w[i]] :
        U \in SUBSET (1..Len(w))}

Whitespace == {" ", "\t", "\n", "\r"}

RECURSIVE TrimStart(_)
\* str::trim_start
TrimStart(s) ==
    IF s # <<>> /\ Head(s) \in Whitespace THEN TrimStart(Tail(s)) ELSE s

RECURSIVE TrimEnd(_)
\* str::trim_end
TrimEnd(s) ==
    IF s # <<>> /\ s[Len(s)] \in Whitespace
    THEN TrimEnd(SubSeq(s, 1, Len(s) - 1))
    ELSE s

\* a slip: str::trim_start in the place of str::trim
Trim_StartOnly(s) == TrimStart(s)

\* str::trim
Trim(s) == TrimEnd(TrimStart(s))

Digits == <<"0", "1", "2", "3", "4", "5", "6", "7", "8", "9">>

DigitValue(c) == IndexOf(c, Digits) - 1

(***************************************************************************)
(* str::parse::<i32>: sign, digits, checked multiplication and addition.   *)
(***************************************************************************)
I32Max == 2147483647

I32Min == (-I32Max) - 1

\* a slip: the value stays at the end of the range it leaves
CheckedStep_Saturating(acc, digit, is_positive) ==
    IF is_positive
    THEN IF acc > I32Max \div 10 \/ acc * 10 > I32Max - digit
         THEN Some(I32Max)
         ELSE Some(acc * 10 + digit)
    ELSE IF acc < -(I32Max \div 10) \/ acc * 10 < I32Min + digit
         THEN Some(I32Min)
         ELSE Some(acc * 10 - digit)

\* result.checked_mul(10), then checked_add(digit) or checked_sub(digit):
\* None when the product or the sum leaves the range of i32
CheckedStep(acc, digit, is_positive) ==
    IF is_positive
    THEN IF acc > I32Max \div 10 \/ acc * 10 > I32Max - digit
         THEN None
         ELSE Some(acc * 10 + digit)
    ELSE IF acc < -(I32Max \div 10) \/ acc * 10 < I32Min + digit
         THEN None
         ELSE Some(acc * 10 - digit)

RECURSIVE Accumulate(_, _, _)
Accumulate(digits, acc, is_positive) ==
    IF digits = <<>> THEN Some(acc)
    ELSE IF ~Occurs(Head(digits), Digits) THEN None
    ELSE LET step == CheckedStep(acc, DigitValue(Head(digits)), is_positive)
         IN  IF step.some
             THEN Accumulate(Tail(digits), step.value, is_positive)
             ELSE None

\* None stands for every ParseIntError
ParseI32(src) ==
    IF src = <<>> THEN None
    ELSE IF Head(src) \in {"+", "-"} /\ Tail(src) = <<>> THEN None
    ELSE IF Head(src) = "+" THEN Accumulate(Tail(src), 0, TRUE)
    ELSE IF Head(src) = "-" THEN Accumulate(Tail(src), 0, FALSE)
    ELSE Accumulate(src, 0, TRUE)

(***************************************************************************)
(* The FromArgValue implementations and converter::convert.                *)
(***************************************************************************)
DefaultConverterConfig ==
    [trim_whitespace |-> TRUE, handle_empty |-> TRUE,
     recognize_none_values |-> TRUE]

ConverterConfigs ==
    [trim_whitespace : BOOLEAN, handle_empty : BOOLEAN,
     recognize_none_values : BOOLEAN]

\* ConversionConfig::default()
DefaultConversionConfig ==
    [case_insensitive_booleans |-> TRUE,
     true_values |-> << <<"t", "r", "u", "e">>, <<"y", "e", "s">>, <<"1">>,
                        <<"o", "n">> >>,
     false_values |-> << <<"f", "a", "l", "s", "e">>, <<"n", "o">>, <<"0">>,
                         <<"o", "f", "f">> >>,
     none_values |-> << <<"n", "o", "n", "e">>, <<"n", "u", "l", "l">>,
                        <<>> >>]

StringFromArgValue(value) == Returned(value)

I32FromArgValue(value) ==
    LET parsed == ParseI32(value) IN
    IF parsed.some THEN Returned(parsed.value)
    ELSE Failed("InvalidIntValue", value)

BoolFromArgValue(value) ==
    LET conversion_config == DefaultConversionConfig
        compare_value == IF conversion_config.case_insensitive_booleans
                         THEN ToLowercase(value)
                         ELSE value
    IN  IF Occurs(compare_value, conversion_config.true_values)
        THEN Returned(TRUE)
        ELSE IF Occurs(compare_value, conversion_config.false_values)
        THEN Returned(FALSE)
        ELSE Failed("InvalidBoolValue", value)

\* the payload stands for the message, which quotes the value
CharFromArgValue(value) ==
    IF Len(value) = 1 THEN Returned(value[1])
    ELSE Failed("InvalidInput", value)

\* T::from_arg_value for the types that are no Option
BaseFromArgValue(base, value) ==
    CASE base = "String" -> StringFromArgValue(value)
      [] base = "i32" -> I32FromArgValue(value)
      [] base = "bool" -> BoolFromArgValue(value)
      [] base = "char" -> CharFromArgValue(value)

\* Option<T>::from_arg_value
OptionFromArgValue(base, value, config_opt) ==
    LET cfg == IF config_opt.some THEN config_opt.value
               ELSE DefaultConverterConfig
    IN  IF cfg.handle_empty /\ value = <<>>
        THEN Returned(None)
        ELSE IF /\ cfg.recognize_none_values
                /\ Occurs(ToLowercase(value),
                          DefaultConversionConfig.none_values)
        THEN Returned(None)
        ELSE LET inner == BaseFromArgValue(base, value) IN
             IF inner.kind = "Ok" THEN Returned(Some(inner.value)) ELSE inner

\* the types T of a conversion: String, i32, bool, char and Option of them
Types == [option : BOOLEAN, base : {"String", "i32", "bool", "char"}]

FromArgValue(ty, value, config_opt) ==
    IF ty.option THEN OptionFromArgValue(ty.base, value, config_opt)
    ELSE BaseFromArgValue(ty.base, value)

Convert(ty, value, config_opt) ==
    LET cfg == IF config_opt.some THEN config_opt.value
               ELSE DefaultConverterConfig
        processed_value == IF cfg.trim_whitespace THEN Trim(value) ELSE value
    IN  FromArgValue(ty, processed_value, Some(cfg))

(***************************************************************************)
(* escaping::unescape.                                                     *)
(***************************************************************************)
DefaultTextProcessingConfig ==
    [case_sensitive |-> TRUE, escape_char |-> "\\", single_quote |-> "'",
     double_quote |-> "\""]

\* the characters the match of unescape names
Escapable == {"n", "t", "r", "\\", "'", "\"", ",", "[", "]"}

\* a slip: the letters stand for themselves
Unescaped_Literal(c) == c

\* what unescape pushes for the escaped character c
Unescaped(c) ==
    CASE c = "n" -> "\n"
      [] c = "t" -> "\t"
      [] c = "r" -> "\r"
      [] OTHER -> c

RECURSIVE UnescapeFrom(_, _, _, _)
\* the loop of unescape over the characters left, and its end
UnescapeFrom(chars, cfg, unescaped, in_escape) ==
    IF chars = <<>>
    THEN IF in_escape
         THEN Failed("UnclosedDelimiter", <<>>)
         ELSE Returned(unescaped)
    ELSE LET c == Head(chars) IN
         IF in_escape
         THEN IF c \in Escapable
              THEN UnescapeFrom(Tail(chars), cfg,
                                Append(unescaped, Unescaped(c)), FALSE)
              ELSE Failed("InvalidInput", c)
         ELSE IF c = cfg.escape_char
         THEN UnescapeFrom(Tail(chars), cfg, unescaped, TRUE)
         ELSE UnescapeFrom(Tail(chars), cfg, Append(unescaped, c), FALSE)

Unescape(s, cfg) == UnescapeFrom(s, cfg, <<>>, FALSE)

(***************************************************************************)
(* The calls: which function, on which arguments.                          *)
(***************************************************************************)
\* most whitespace characters on each side of a value
MaxPad == 1

\* longest string of sign, digit and other characters given to i32
MaxDigits == 3

\* longest string given to unescape
MaxEscaped == 4

ConverterConfigOpts == {None} \cup {Some(c) : c \in ConverterConfigs}

ConvWords ==
    { <<>>,
      <<"n", "o", "n", "e">>, <<"N", "o", "n", "e">>,
      <<"n", "u", "l", "l">>, <<"N", "U", "L", "L">>,
      <<"1", "2">>, <<"-", "5">>, <<"o", "n">>,
      <<"a">>, <<"a", " ", "b">>, <<"x", "1">> }

Padding == Strings({" ", "\t"}, MaxPad)

ConvValues == {l \o w \o r : l \in Padding, w \in ConvWords, r \in Padding}

RECURSIVE DecimalOf(_)
\* the decimal digits of the natural number n
DecimalOf(n) ==
    IF n < 10 THEN <<Digits[n + 1]>>
    ELSE Append(DecimalOf(n \div 10), Digits[(n % 10) + 1])

\* strings of digits at both ends of the range of i32 and beyond them
IntBoundaries ==
    LET max == DecimalOf(I32Max)
        front == SubSeq(max, 1, Len(max) - 1)
    IN  { max, <<"+">> \o max, <<"0", "0">> \o max, <<"-">> \o max,
          front \o <<"8">>, <<"-">> \o front \o <<"8">>,
          <<"-">> \o front \o <<"9">>, <<"-", "0">> \o front \o <<"8">>,
          max \o <<"0">>, <<"-">> \o max \o <<"0">>,
          <<"3">> \o Tail(max), <<"-", "3">> \o Tail(max),
          <<"9">> \o max }

IntValues ==
    Strings({"+", "-", "0", "1", "9", ".", " ", "a"}, MaxDigits)
        \cup IntBoundaries

BoolValues ==
    UNION {CaseVariants(DefaultConversionConfig.true_values[i]) : i \in 1..4}
      \cup
    UNION {CaseVariants(DefaultConversionConfig.false_values[i]) : i \in 1..4}
      \cup
    { <<>>, <<"2">>, <<"1", "0">>, <<"t">>, <<"t", "r", "u">>,
      <<"y", "e", "s", "s">>, <<" ", "o", "n">>, <<"o", "f">>,
      <<"T", "R", "U", "E", " ">> }

NoReturn == [kind |-> "Pending"]

\* the values given to the conversion to ty
ValuesOf(ty) ==
    ConvValues \cup (IF ty.base = "i32" THEN IntValues ELSE {})
               \cup (IF ty.base = "bool" THEN BoolValues ELSE {})

InitCall ==
    /\ config = DefaultConfig
    /\ \/ \E t \in Tokens : call = [fn |-> "detect", input |-> t]
       \/ \E t \in Tokens, fs \in Strings(AllowedKeyValueFormats, MaxAllowed) :
            call = [fn |-> "validate", detected |-> Detect(t),
                    allowed_formats |-> fs]
       \/ \E fn \in {"from_arg_value", "convert"}, ty \in Types,
             c \in ConverterConfigOpts :
            \E v \in ValuesOf(ty) :
                call = [fn |-> fn, ty |-> ty, value |-> v, config |-> c]
       \/ \E s \in Strings(Escapable \cup {"a"}, MaxEscaped) :
            call = [fn |-> "unescape", s |-> s,
                    config |-> DefaultTextProcessingConfig]
    /\ out = NoReturn
    /\ IdleScan
    /\ IdleBatch
    /\ IdleStore
    /\ IdleLog

CallDetect ==
    /\ call.fn = "detect"
    /\ out = NoReturn
    /\ out' = Returned(Detect(call.input))
    /\ UNCHANGED <<config, call, scanVars, batchVars, storeVars,
                   logVars>>

CallValidate ==
    /\ call.fn = "validate"
    /\ out = NoReturn
    /\ out' = Validate(call.detected, call.allowed_formats)
    /\ UNCHANGED <<config, call, scanVars, batchVars, storeVars,
                   logVars>>

CallFromArgValue ==
    /\ call.fn = "from_arg_value"
    /\ out = NoReturn
    /\ out' = FromArgValue(call.ty, call.value, call.config)
    /\ UNCHANGED <<config, call, scanVars, batchVars, storeVars,
                   logVars>>

CallConvert ==
    /\ call.fn = "convert"
    /\ out = NoReturn
    /\ out' = Convert(call.ty, call.value, call.config)
    /\ UNCHANGED <<config, call, scanVars, batchVars, storeVars,
                   logVars>>

CallUnescape ==
    /\ call.fn = "unescape"
    /\ out = NoReturn
    /\ out' = Unescape(call.s, call.config)
    /\ UNCHANGED <<config, call, scanVars, batchVars, storeVars,
                   logVars>>

NextCall ==
    \/ CallDetect
    \/ CallValidate
    \/ CallFromArgValue
    \/ CallConvert
    \/ CallUnescape

SpecCall == InitCall /\ [][NextCall]_vars

\* the call has returned
Returns(fn) == call.fn = fn /\ out # NoReturn

(***************************************************************************)
(* Properties of format::detect and format::validate.                      *)
(***************************************************************************)
\* C13: detect splits the token at its first '=' only.  Without '=' the
\* result is KeyOnly, the key is the whole token and the value is absent.
\* With nothing after the first '=' it is KeyEquals, the key is the text
\* before it and the value is the present empty string.  Otherwise it is
\* KeyValue, the key is the text before the first '=' and the value is all
\* that follows it, later '=' included.  The key may be empty.
C13_DetectSplitsAtFirstEquals ==
    Returns("detect") =>
        LET t == call.input
            d == out.value
        IN  IF ~Occurs("=", t)
            THEN d = [format |-> "KeyOnly", key |-> t, value |-> None]
            ELSE \E i \in 1..Len(t) :
                    /\ t[i] = "="
                    /\ \A j \in 1..(i - 1) : t[j] # "="
                    /\ d.key = SubSeq(t, 1, i - 1)
                    /\ IF i = Len(t)
                       THEN d.format = "KeyEquals" /\ d.value = Some(<<>>)
                       ELSE /\ d.format = "KeyValue"
                            /\ d.value = Some(SubSeq(t, i + 1, Len(t)))

\* an empty key, and a second '=' that stays in the value
C13_Witness ==
    /\ Returns("detect")
    /\ call.input = <<"=", "a", "=", "b">>
    /\ out.value.key = <<>>
    /\ out.value.value = Some(<<"a", "=", "b">>)

\* C26: detect loses nothing and never yields KeyAll: the result is KeyOnly
\* with the value absent and the whole token as key, or the key holds no '='
\* and key, '=' and value put together are the token, the format being
\* KeyEquals exactly for the empty value and KeyValue exactly for a
\* non-empty one.
C26_DetectLosesNothing ==
    Returns("detect") =>
        LET t == call.input
            d == out.value
        IN  /\ d.format # "KeyAll"
            /\ \/ d = [format |-> "KeyOnly", key |-> t, value |-> None]
               \/ /\ d.value.some
                  /\ ~Occurs("=", d.key)
                  /\ d.key \o <<"=">> \o d.value.value = t
                  /\ d.format = "KeyEquals" <=> d.value.value = <<>>
                  /\ d.format = "KeyValue" <=> d.value.value # <<>>

\* a token that ends with its only '=': the empty value is kept as present
C26_Witness ==
    /\ Returns("detect")
    /\ call.input = <<"a", "b", "=">>
    /\ out.value = [format |-> "KeyEquals", key |-> <<"a", "b">>,
                    value |-> Some(<<>>)]

\* C14: validate succeeds exactly when the list of allowed formats holds
\* the detected format or KeyAll; otherwise, and so for the empty list, it
\* fails with InvalidKeyValue, and the error names the key.
C14_ValidateIffListedOrKeyAll ==
    Returns("validate") =>
        LET d == call.detected
            fs == call.allowed_formats
        IN  IF Occurs(d.format, fs) \/ Occurs("KeyAll", fs)
            THEN out.kind = "Ok"
            ELSE /\ out.kind = "Err"
                 /\ out.error = "InvalidKeyValue"
                 /\ out.payload.key = d.key

\* a KeyEquals detection is refused by a list of the two other formats
C14_Witness ==
    /\ Returns("validate")
    /\ call.detected.format = "KeyEquals"
    /\ call.detected.key = <<"a", "b">>
    /\ call.allowed_formats = <<"KeyValue", "KeyOnly">>
    /\ out.kind = "Err"

(***************************************************************************)
(* Properties of the conversions.                                          *)
(***************************************************************************)
\* the literals none and null, in any case
NoneLiteral(v) ==
    \/ v \in CaseVariants(<<"n", "o", "n", "e">>)
    \/ v \in CaseVariants(<<"n", "u", "l", "l">>)

\* the flags in effect: those given, or all three set
FlagsOf(config_opt) ==
    IF config_opt = None
    THEN [trim_whitespace |-> TRUE, handle_empty |-> TRUE,
          recognize_none_values |-> TRUE]
    ELSE config_opt.value

\* what the claim of C15 makes of the value v for Option<base>
OptionInOrder(base, v, flags) ==
    IF flags.handle_empty /\ v = <<>> THEN Returned(None)
    ELSE IF flags.recognize_none_values /\ NoneLiteral(v) THEN Returned(None)
    ELSE LET inner == BaseFromArgValue(base, v) IN
         IF inner.kind = "Ok" THEN Returned(Some(inner.value)) ELSE inner

\* C15: Option<T> conversion checks in this order: the empty string is
\* absent when handle_empty is set; else none and null, in any case, are
\* absent when recognize_none_values is set; otherwise the inner conversion
\* runs on the string, its success wrapped as present, its failure returned
\* unchanged.  So without recognize_none_values, Option<String> of "none"
\* is Some("none").
C15_OptionChecksInOrder ==
    (Returns("from_arg_value") /\ call.ty.option) =>
        out = OptionInOrder(call.ty.base, call.value, FlagsOf(call.config))

\* v from its first to its last character that is no whitespace
Trimmed(v) ==
    LET ink == {i \in 1..Len(v) : v[i] \notin Whitespace} IN
    IF ink = {} THEN <<>>
    ELSE SubSeq(v, CHOOSE i \in ink : \A j \in ink : i <= j,
                   CHOOSE i \in ink : \A j \in ink : j <= i)

\* C16: convert(value, config) is the from_arg_value of the target type on
\* the value without its leading and trailing whitespace when
\* trim_whitespace is set, and on the value as it is otherwise, whatever the
\* target type; without a config all three flags are set.  The value is
\* trimmed before Option looks for the empty string and the none-literals:
\* with all flags set, a string of whitespace and a none-literal with
\* whitespace around it both convert to the absent value.
C16_ConvertTrimsThenConverts ==
    Returns("convert") =>
        LET flags == FlagsOf(call.config)
            v == call.value
        IN  /\ out = FromArgValue(call.ty,
                                  IF flags.trim_whitespace THEN Trimmed(v)
                                  ELSE v,
                                  Some(flags))
            /\ ( /\ call.ty.option
                 /\ flags = [trim_whitespace |-> TRUE, handle_empty |-> TRUE,
                             recognize_none_values |-> TRUE]
                 /\ Trimmed(v) = <<>> \/ NoneLiteral(Trimmed(v)) )
                 => out = Returned(None)

\* no config, and a none-literal between a space and a tab
C16_Witness ==
    /\ Returns("convert")
    /\ call.config = None
    /\ call.ty = [option |-> TRUE, base |-> "i32"]
    /\ call.value = <<" ", "N", "o", "n", "e", "\t">>
    /\ out = Returned(None)

\* v is one of the words, in any case
OneOf(v, words) == \E w \in words : v \in CaseVariants(w)

TrueWords == { <<"t", "r", "u", "e">>, <<"y", "e", "s">>, <<"1">>, <<"o", "n">> }

FalseWords ==
    { <<"f", "a", "l", "s", "e">>, <<"n", "o">>, <<"0">>, <<"o", "f", "f">> }

\* C17: the conversion to bool compares the string in lower case: it is
\* true exactly for true, yes, 1 and on, false exactly for false, no, 0 and
\* off, and every other string, the empty one included, fails with
\* InvalidBoolValue holding the string as it was given; no string is both.
C17_BoolIsOneOfTheLiterals ==
    (Returns("from_arg_value") /\ call.ty = [option |-> FALSE, base |-> "bool"])
        => LET v == call.value IN
           /\ ~(OneOf(v, TrueWords) /\ OneOf(v, FalseWords))
           /\ OneOf(v, TrueWords) <=> out = Returned(TRUE)
           /\ OneOf(v, FalseWords) <=> out = Returned(FALSE)
           /\ (~OneOf(v, TrueWords) /\ ~OneOf(v, FalseWords))
                <=> out = Failed("InvalidBoolValue", v)

\* off, written in mixed case
C17_Witness ==
    /\ Returns("from_arg_value")
    /\ call.ty = [option |-> FALSE, base |-> "bool"]
    /\ call.value = <<"O", "f", "F">>
    /\ out = Returned(FALSE)

\* v without its sign, when it has one
Unsigned(v) == IF v # <<>> /\ Head(v) \in {"+", "-"} THEN Tail(v) ELSE v

\* an optional sign, then one decimal digit or more
IsDecimal(v) ==
    /\ Unsigned(v) # <<>>
    /\ \A i \in 1..Len(Unsigned(v)) :
          Unsigned(v)[i] \in {"0", "1", "2", "3", "4", "5", "6", "7", "8", "9"}

RECURSIVE Significant(_)
\* the digits ds from the first that is not 0
Significant(ds) ==
    IF ds # <<>> /\ Head(ds) = "0" THEN Significant(Tail(ds)) ELSE ds

\* a <= b for two strings of digits of one length
DigitsLeq(a, b) ==
    \/ a = b
    \/ \E i \in 1..Len(a) :
          /\ DigitValue(a[i]) < DigitValue(b[i])
          /\ \A j \in 1..(i - 1) : a[j] = b[j]

\* the number v lies between -2147483648 and 2147483647
InI32Range(v) ==
    LET ds == Significant(Unsigned(v))
        most == IF Head(v) = "-"
                THEN <<"2", "1", "4", "7", "4", "8", "3", "6", "4", "8">>
                ELSE <<"2", "1", "4", "7", "4", "8", "3", "6", "4", "7">>
    IN  Len(ds) < Len(most) \/ (Len(ds) = Len(most) /\ DigitsLeq(ds, most))

RECURSIVE PlaceValues(_, _)
\* sign times the sum of the digits ds, each at its power of ten
PlaceValues(ds, sign) ==
    IF ds = <<>> THEN 0
    ELSE sign * DigitValue(Head(ds)) * (10 ^ (Len(ds) - 1))
           + PlaceValues(Tail(ds), sign)

NumberOf(v) ==
    PlaceValues(Significant(Unsigned(v)), IF Head(v) = "-" THEN -1 ELSE 1)

\* C18: the conversion to i32 succeeds exactly on an optional sign followed
\* by one decimal digit or more whose number lies between -2147483648 and
\* 2147483647, and returns that number; every other string (empty, with a
\* fraction, with whitespace, out of the range) fails with InvalidIntValue
\* holding the string; no number is truncated or wrapped.
C18_IntIsStrictAndChecked ==
    (Returns("from_arg_value") /\ call.ty = [option |-> FALSE, base |-> "i32"])
        => LET v == call.value IN
           IF IsDecimal(v) /\ InI32Range(v)
           THEN out = Returned(NumberOf(v))
           ELSE out = Failed("InvalidIntValue", v)

\* the least number of the range
C18_Witness ==
    /\ Returns("from_arg_value")
    /\ call.ty = [option |-> FALSE, base |-> "i32"]
    /\ call.value = <<"-", "2", "1", "4", "7", "4", "8", "3", "6", "4", "8">>
    /\ out = Returned(I32Min)

(***************************************************************************)
(* Properties of escaping::unescape.                                       *)
(***************************************************************************)
\* what stands for each character that may follow the escape character
Replacement ==
    [c \in {"n", "t", "r", "\\", "'", "\"", ",", "[", "]"} |->
        IF c = "n" THEN "\n"
        ELSE IF c = "t" THEN "\t"
        ELSE IF c = "r" THEN "\r"
        ELSE c]

RECURSIVE Replaced(_)
\* s read from the left, each backslash with the character after it replaced;
\* None when a backslash has no character after it or one without replacement
Replaced(s) ==
    IF s = <<>> THEN Some(<<>>)
    ELSE IF Head(s) # "\\"
    THEN LET rest == Replaced(Tail(s)) IN
         IF rest.some THEN Some(<<Head(s)>> \o rest.value) ELSE None
    ELSE IF Len(s) >= 2 /\ s[2] \in DOMAIN Replacement
    THEN LET rest == Replaced(SubSeq(s, 3, Len(s))) IN
         IF rest.some THEN Some(<<Replacement[s[2]]>> \o rest.value) ELSE None
    ELSE None

\* C19: with the default configuration, unescape replaces each backslash
\* followed by n, t, r, backslash, single quote, double quote, comma, [ or ]
\* by newline, tab, carriage return or that character itself, copies every
\* other character, and fails when a backslash is followed by another
\* character or ends the string.
C19_UnescapeReplacesOrFails ==
    (Returns("unescape") /\ call.config = DefaultTextProcessingConfig)
        => LET expected == Replaced(call.s) IN
           IF expected.some
           THEN out = Returned(expected.value)
           ELSE out.kind = "Err"

\* an escaped n and an escaped comma
C19_Witness ==
    /\ Returns("unescape")
    /\ call.s = <<"\\", "n", "\\", ",">>
    /\ out = Returned(<<"\n", ",">>)

(***************************************************************************)
(* DefaultKeyValueStore: store maps each normalized key to its value, and  *)
(* added lists the add calls made since the store was new or last cleared. *)
(***************************************************************************)
\* most add calls between two clear calls
MaxAdds == 3

StoreKeys == { <<"b">>, <<"B">>, <<"a", "B">>, <<"A", "b">> }

\* key only, key with the empty value, key with a value
StoreValues == {None, Some(<<>>), Some(<<"x">>), Some(<<"y">>)}

\* a slip: the key is stored as it is written
NormalizeKey_AsWritten(key) == key

NormalizeKey(key) == IF case_sensitive THEN key ELSE ToLowercase(key)

\* the map after HashMap::insert(key, value)
Insert(map, key, value) ==
    [k \in (DOMAIN map) \cup {key} |-> IF k = key THEN value ELSE map[k]]

\* KeyValueStore::get: the value of a key with one, None otherwise
Get(key) ==
    IF NormalizeKey(key) \in DOMAIN store THEN store[NormalizeKey(key)]
    ELSE None

\* KeyValueStore::has_key
HasKey(key) == NormalizeKey(key) \in DOMAIN store

\* KeyValueStore::len
StoreLen == Cardinality(DOMAIN store)

InitStore ==
    /\ config = DefaultConfig
    /\ store = <<>>
    /\ case_sensitive \in BOOLEAN
    /\ added = <<>>
    /\ IdleScan
    /\ IdleBatch
    /\ IdleCall
    /\ IdleLog

\* KeyValueStore::add
Add(key, value) ==
    /\ Len(added) < MaxAdds
    /\ store' = Insert(store, NormalizeKey(key), value)
    /\ added' = Append(added, [key |-> key, value |-> value])
    /\ UNCHANGED <<config, case_sensitive, scanVars, batchVars, callVars,
                   logVars>>

\* DefaultKeyValueStore::clear
Clear ==
    /\ store' = <<>>
    /\ added' = <<>>
    /\ UNCHANGED <<config, case_sensitive, scanVars, batchVars, callVars,
                   logVars>>

NextStore ==
    \/ \E key \in StoreKeys, value \in StoreValues : Add(key, value)
    \/ Clear

SpecStore == InitStore /\ [][NextStore]_vars

(***************************************************************************)
(* Properties of the store.                                                *)
(***************************************************************************)
\* the keys a and b have one normalized form
SameKey(a, b) ==
    IF case_sensitive THEN a = b
    ELSE /\ Len(a) = Len(b)
         /\ \A i \in 1..Len(a) : ToLowerChar(a[i]) = ToLowerChar(b[i])

\* the add calls since the last clear whose key has the normalized form of k
AddsOf(k) == {i \in 1..Len(added) : SameKey(added[i].key, k)}

\* C20: while the case sensitivity of a store is not changed, after any add
\* and clear calls: has_key(k) holds exactly when an add since the last
\* clear used a key with the normalized form of k; get(k) is the value of
\* the latest such add (None when it gave the key only, Some("") when it
\* gave the empty value, has_key holding in both cases); and len() is the
\* number of distinct normalized keys added.
C20_StoreAnswersFromAddsSinceClear ==
    /\ \A k \in StoreKeys :
          /\ HasKey(k) <=> AddsOf(k) # {}
          /\ AddsOf(k) # {} =>
                Get(k) = added[CHOOSE i \in AddsOf(k) :
                                  \A j \in AddsOf(k) : j <= i].value
          /\ AddsOf(k) = {} => Get(k) = None
    /\ StoreLen = Cardinality({AddsOf(added[i].key) : i \in 1..Len(added)})

\* a value, then the empty value under another spelling, then a key only
C20_Witness ==
    /\ ~case_sensitive
    /\ Len(added) = 3
    /\ added[1] = [key |-> <<"a", "B">>, value |-> Some(<<"x">>)]
    /\ added[2] = [key |-> <<"A", "b">>, value |-> Some(<<>>)]
    /\ added[3] = [key |-> <<"b">>, value |-> None]
    /\ Get(<<"a", "B">>) = Some(<<>>)
    /\ Get(<<"b">>) = None
    /\ HasKey(<<"b">>)
    /\ StoreLen = 2

(***************************************************************************)
(* The store when its case sensitivity is changed between the calls.       *)
(***************************************************************************)
\* DefaultKeyValueStore::set_case_sensitive: the flag alone is written,
\* the keys of the map stay as they were stored
SetCaseSensitive(flag) ==
    /\ case_sensitive' = flag
    /\ UNCHANGED <<config, store, added, scanVars, batchVars, callVars,
                   logVars>>

NextSwitch ==
    \/ \E key \in StoreKeys, value \in StoreValues : Add(key, value)
    \/ Clear
    \/ \E flag \in BOOLEAN : SetCaseSensitive(flag)

SpecSwitch == InitStore /\ [][NextSwitch]_vars

\* a and b are spellings of one key
CaseVariant(a, b) ==
    /\ Len(a) = Len(b)
    /\ \A i \in 1..Len(a) : ToLowerChar(a[i]) = ToLowerChar(b[i])

\* the store goes from case-sensitive to case-insensitive in this step
SwitchesToInsensitive == case_sensitive /\ ~case_sensitive'

\* the first half of C21: what get returned with a value before the switch,
\* it returns with a value stored under a spelling of the key after it
EntriesStayRetrievable ==
    SwitchesToInsensitive =>
        \A k \in StoreKeys :
            Get(k).some =>
                /\ Get(k)'.some
                /\ \E j \in DOMAIN store :
                      CaseVariant(j, k) /\ Get(k)' = store[j]

\* the second half of C21: an add to a case-insensitive store is read back
\* under every spelling of its key
AddReachesEverySpelling ==
    (~case_sensitive /\ Len(added') = Len(added) + 1) =>
        LET a == added'[Len(added')] IN
        \A k \in StoreKeys : CaseVariant(k, a.key) => Get(k)' = a.value

\* C21: set_case_sensitive(false) on a case-sensitive store keeps the
\* earlier entries retrievable: get(k) of a key added with a value returns,
\* after the switch, a value stored under a spelling of k; and after a
\* further add(k, v) every spelling of k returns v.
C21_SwitchKeepsEntries ==
    [][EntriesStayRetrievable /\ AddReachesEverySpelling]_vars

(***************************************************************************)
(* logger::LOG_CONFIG, logger::init and logger::config.  LOG_CONFIG is a   *)
(* std::sync::OnceLock: init is LOG_CONFIG.set(config) with the result     *)
(* dropped, config is LOG_CONFIG.get_or_init(LogConfig::default).  Both    *)
(* read the state of the lock (get), then enter call_once, where one       *)
(* thread runs the initializer while the others wait, then return.         *)
(***************************************************************************)
\* number of threads
MaxThreads == 2

Threads == 1..MaxThreads

\* LogConfig::default()
DefaultLogConfig ==
    [include_timestamps |-> TRUE, include_component |-> TRUE,
     include_operation |-> TRUE, json_format |-> FALSE]

\* the LogConfig of test_logger_config
TestLogConfig ==
    [include_timestamps |-> FALSE, include_component |-> TRUE,
     include_operation |-> FALSE, json_format |-> TRUE]

JsonLogConfig == [DefaultLogConfig EXCEPT !.json_format = TRUE]

LogConfigs == {DefaultLogConfig, TestLogConfig, JsonLogConfig}

\* a slip: config initializes LOG_CONFIG with another value than the default
Initializer_NotDefault(op, value) ==
    IF op = "init" THEN value ELSE TestLogConfig

\* what the call writes when it is the one to initialize LOG_CONFIG
Initializer(op, value) == IF op = "init" THEN value ELSE DefaultLogConfig

\* a slip: a plain assignment, whatever the state of the lock
NextPlace_AlwaysWrite(place, once) ==
    IF place = "get" THEN "call_once" ELSE "write"

\* where a call goes on from its place, given the state of the lock: get
\* returns the value of a complete lock; call_once runs the initializer
\* of an incomplete one
NextPlace(place, once) ==
    IF place = "get"
    THEN IF once = "Complete" THEN "return" ELSE "call_once"
    ELSE IF once = "Incomplete" THEN "write" ELSE "return"

InitLog ==
    /\ config = DefaultConfig
    /\ LOG_CONFIG = [once |-> "Incomplete", value |-> None]
    /\ threads = [t \in Threads |->
                    [pc |-> "idle", op |-> "none", value |-> DefaultLogConfig,
                     ret |-> NoReturn]]
    /\ winner = None
    /\ last_init = None
    /\ observed = {}
    /\ IdleScan
    /\ IdleBatch
    /\ IdleCall
    /\ IdleStore

\* thread t calls logger::init(c)
LoggerInit(t, c) ==
    /\ threads[t].pc = "idle"
    /\ threads' = [threads EXCEPT ![t] =
                     [pc |-> "get", op |-> "init", value |-> c, ret |-> NoReturn]]
    /\ UNCHANGED <<LOG_CONFIG, winner, last_init, observed>>
    /\ UNCHANGED <<config, scanVars, batchVars, callVars, storeVars>>

\* thread t calls logger::config()
LoggerConfig(t) ==
    /\ threads[t].pc = "idle"
    /\ threads' = [threads EXCEPT ![t] =
                     [pc |-> "get", op |-> "config",
                      value |-> DefaultLogConfig, ret |-> NoReturn]]
    /\ UNCHANGED <<LOG_CONFIG, winner, last_init, observed>>
    /\ UNCHANGED <<config, scanVars, batchVars, callVars, storeVars>>

\* OnceLock::get at the start of set and of get_or_init
OnceGet(t) ==
    /\ threads[t].pc = "get"
    /\ threads' = [threads EXCEPT ![t].pc = NextPlace("get", LOG_CONFIG.once)]
    /\ UNCHANGED <<LOG_CONFIG, winner, last_init, observed>>
    /\ UNCHANGED <<config, scanVars, batchVars, callVars, storeVars>>

\* Once::call_once_force: a thread waits while another runs the initializer
OnceCall(t) ==
    /\ threads[t].pc = "call_once"
    /\ LOG_CONFIG.once # "Running"
    /\ LET place == NextPlace("call_once", LOG_CONFIG.once) IN
       /\ threads' = [threads EXCEPT ![t].pc = place]
       /\ LOG_CONFIG' = IF place = "write"
                        THEN [LOG_CONFIG EXCEPT !.once = "Running"]
                        ELSE LOG_CONFIG
    /\ UNCHANGED <<winner, last_init, observed>>
    /\ UNCHANGED <<config, scanVars, batchVars, callVars, storeVars>>

\* the initializer writes the value and the lock is complete
OnceWrite(t) ==
    /\ threads[t].pc = "write"
    /\ LET v == Initializer(threads[t].op, threads[t].value) IN
       /\ LOG_CONFIG' = [once |-> "Complete", value |-> Some(v)]
       /\ winner' = IF winner.some THEN winner
                    ELSE Some([op |-> threads[t].op, value |-> v])
    /\ threads' = [threads EXCEPT ![t].pc = "return"]
    /\ UNCHANGED <<last_init, observed>>
    /\ UNCHANGED <<config, scanVars, batchVars, callVars, storeVars>>

\* init returns (), config returns the value of LOG_CONFIG
OnceReturn(t) ==
    /\ threads[t].pc = "return"
    /\ IF threads[t].op = "config"
       THEN /\ threads' = [threads EXCEPT
                             ![t].pc = "idle",
                             ![t].ret = Returned(LOG_CONFIG.value.value)]
            /\ observed' = observed \cup {LOG_CONFIG.value.value}
            /\ UNCHANGED last_init
       ELSE /\ threads' = [threads EXCEPT ![t].pc = "idle",
                                          ![t].ret = Returned(<<>>)]
            /\ last_init' = Some(threads[t].value)
            /\ UNCHANGED observed
    /\ UNCHANGED <<LOG_CONFIG, winner>>
    /\ UNCHANGED <<config, scanVars, batchVars, callVars, storeVars>>

NextLog ==
    \E t \in Threads :
        \/ \E c \in LogConfigs : LoggerInit(t, c)
        \/ LoggerConfig(t)
        \/ OnceGet(t)
        \/ OnceCall(t)
        \/ OnceWrite(t)
        \/ OnceReturn(t)

SpecLog == InitLog /\ [][NextLog]_vars

(***************************************************************************)
(* Properties of the logger configuration.                                 *)
(***************************************************************************)
\* thread t has returned from config() and made no call since
BackFromConfig(t) == threads[t].pc = "idle" /\ threads[t].op = "config"

\* no thread but t has made a call
Alone(t) == \A u \in Threads \ {t} : threads[u].op = "none"

\* C22: after init(c) has returned, config() returns c, and it returns the
\* default configuration only when init was never called (here for the
\* calls of one thread, one after the other).
C22_ConfigReturnsLatestInit ==
    \A t \in Threads :
        (BackFromConfig(t) /\ Alone(t)) =>
            /\ last_init.some => threads[t].ret = Returned(last_init.value)
            /\ (threads[t].ret = Returned(DefaultLogConfig) /\ last_init.some)
                  => last_init.value = DefaultLogConfig

\* C22, amended: config() returns the argument of the init call that found
\* LOG_CONFIG not yet set, whatever init calls have returned since, and it
\* returns the default configuration when a config() call found it not yet
\* set, whatever init calls have returned since.
C22_ConfigReturnsFirstSet ==
    \A t \in Threads :
        BackFromConfig(t) =>
            /\ winner.some
            /\ threads[t].ret = Returned(winner.value.value)
            /\ winner.value.op = "config" => winner.value.value = DefaultLogConfig

\* init(Test), then init(Json), then config() in one thread: Test
C22_Witness ==
    /\ BackFromConfig(1)
    /\ Alone(1)
    /\ winner = Some([op |-> "init", value |-> TestLogConfig])
    /\ last_init = Some(JsonLogConfig)
    /\ threads[1].ret = Returned(TestLogConfig)

\* C29: the logger configuration is written once: however the init and
\* config calls of the threads interleave, every config() call returns one
\* and the same value, the argument of the first init to take effect or
\* the default when a config() call set it, and no later call changes it.
C29_ConfigIsWriteOnce ==
    /\ Cardinality(observed) <= 1
    /\ observed # {} => winner.some /\ observed = {winner.value.value}
    /\ LOG_CONFIG.once = "Complete" =>
          /\ winner.some
          /\ LOG_CONFIG.value = Some(winner.value.value)
    /\ winner.some =>
          IF winner.value.op = "config"
          THEN winner.value.value = DefaultLogConfig
          ELSE winner.value.value \in LogConfigs

\* two threads are back from config() with the value of an init that a
\* later init with another argument did not change, while one thread is
\* inside a further call
C29_Witness ==
    /\ BackFromConfig(1)
    /\ threads[2].pc = "get"
    /\ threads[2].op = "init"
    /\ winner = Some([op |-> "init", value |-> JsonLogConfig])
    /\ last_init = Some(TestLogConfig)
    /\ observed = {JsonLogConfig}

(***************************************************************************)
(* Further properties of tokenize_arg.                                     *)
(***************************************************************************)
\* the state in which the scan of the interior s ends
ScanEnd(cfg, s) == ScanPrefix(cfg, s, Len(s))

\* the interior s ends with an escape character that is itself escaped:
\* the scan reads it in EscapeSequence and ends in Normal
EndsWithEscapedEscape(cfg, s) ==
    /\ Len(s) >= 2
    /\ s[Len(s)] = cfg.escape_char
    /\ ScanPrefix(cfg, s, Len(s) - 1).state = "EscapeSequence"
    /\ ScanEnd(cfg, s).state = "Normal"
    /\ ScanEnd(cfg, s).err = "none"

\* C23: a bracketed argument whose interior ends with an escaped escape
\* character tokenizes, and its last token ends with both escape
\* characters; the trailing-escape error (InvalidInput) is returned only
\* when the scan of the interior would end in EscapeSequence.
C23_EscapedEscapeAtEndTokenizes ==
    (Done /\ Bracketed(config, arg)) =>
        LET s == Interior(arg) IN
        /\ EndsWithEscapedEscape(config, s) =>
              /\ ret.kind = "Ok"
              /\ LET last == ret.tokens[Len(ret.tokens)] IN
                 /\ Len(last) >= 2
                 /\ SubSeq(last, Len(last) - 1, Len(last))
                      = <<config.escape_char, config.escape_char>>
        /\ ret.kind = "InvalidInput" => ScanEnd(config, s).state = "EscapeSequence"

(***************************************************************************)
(* Further properties of the conversions.                                  *)
(***************************************************************************)
\* the result of Option<base> when the inner conversion runs on v
InnerWrapped(base, v) ==
    LET inner == BaseFromArgValue(base, v) IN
    IF inner.kind = "Ok" THEN Returned(Some(inner.value)) ELSE inner

\* C24: the flags act independently, and handle_empty alone decides
\* whether the empty string is absent: without handle_empty, the Option
\* conversion of the empty string runs the inner conversion (Some("") for
\* String, a failure for i32), whether recognize_none_values is set or not.
C24_HandleEmptyAloneDecides ==
    (Returns("from_arg_value") /\ call.ty.option /\ call.value = <<>>) =>
        IF FlagsOf(call.config).handle_empty
        THEN out = Returned(None)
        ELSE out = InnerWrapped(call.ty.base, <<>>)

(***************************************************************************)
(* The shared utilities of utils.rs, split_by_commas called on its own,    *)
(* and the conversions of storage.rs.                                      *)
(***************************************************************************)
\* longest string given to the two splitters
MaxSplit == 4
\* longest string given to escape
MaxRaw == 3
\* longest string given to smart_trim
MaxTrim == 5

\* the TextProcessingConfig with the characters of the TokenizerConfig cfg
TextConfigOf(cfg) ==
    [case_sensitive |-> TRUE, escape_char |-> cfg.escape_char,
     single_quote |-> cfg.single_quote, double_quote |-> cfg.double_quote]

TextProcessingConfigs == {TextConfigOf(cfg) : cfg \in Configs}

\* split_by_commas(content): the early return, the loop and the final match
SplitByCommas(cfg, cont) ==
    IF cont = <<>> THEN Returned(<< <<>> >>)
    ELSE LET st == ScanPrefix(cfg, cont, Len(cont)) IN
         IF st.err # "none" THEN Failed(st.err, cont)
         ELSE LET fin == FinishScan(cfg, cont, st.state, st.current,
                                    st.result)
              IN  IF fin.kind = "Ok" THEN Returned(fin.tokens)
                  ELSE Failed(fin.kind, cont)

\* smart_split: one iteration of `for c in s.chars()`
SmartSplitStep(cfg, delimiter, st, c) ==
    IF st.in_escape
        THEN [st EXCEPT !.current = Append(@, c), !.in_escape = FALSE]
    ELSE IF c = cfg.escape_char
        THEN [st EXCEPT !.current = Append(@, c), !.in_escape = TRUE]
    ELSE IF c = cfg.single_quote /\ ~st.in_double_quote
        THEN [st EXCEPT !.current = Append(@, c),
                        !.in_single_quote = ~st.in_single_quote]
    ELSE IF c = cfg.double_quote /\ ~st.in_single_quote
        THEN [st EXCEPT !.current = Append(@, c),
                        !.in_double_quote = ~st.in_double_quote]
    ELSE IF c = delimiter /\ ~st.in_single_quote /\ ~st.in_double_quote
        THEN [st EXCEPT !.result = Append(@, st.current), !.current = <<>>]
    ELSE [st EXCEPT !.current = Append(@, c)]

RECURSIVE SmartSplitPrefix(_, _, _, _)
\* the loop of smart_split run over the first n characters of s
SmartSplitPrefix(cfg, delimiter, s, n) ==
    IF n = 0
    THEN [result |-> <<>>, current |-> <<>>, in_single_quote |-> FALSE,
          in_double_quote |-> FALSE, in_escape |-> FALSE]
    ELSE SmartSplitStep(cfg, delimiter,
                        SmartSplitPrefix(cfg, delimiter, s, n - 1), s[n])

SmartSplit(s, delimiter, cfg) ==
    LET st == SmartSplitPrefix(cfg, delimiter, s, Len(s)) IN
    IF st.in_single_quote THEN Failed("UnclosedDelimiter", <<>>)
    ELSE IF st.in_double_quote THEN Failed("UnclosedDelimiter", <<>>)
    ELSE IF st.in_escape THEN Failed("UnclosedDelimiter", <<>>)
    ELSE Returned(Append(st.result, st.current))

\* escaping::escape: the escape character before each character to escape
Escape(s, chars_to_escape, cfg) ==
    Flatten([i \in 1..Len(s) |->
                IF s[i] = cfg.escape_char \/ s[i] \in chars_to_escape
                THEN <<cfg.escape_char, s[i]>> ELSE <<s[i]>>])

\* strings::smart_trim
SmartTrim(s, cfg) ==
    IF Len(s) < 2 THEN Trim(s)
    ELSE LET first_char == s[1]
             last_char == s[Len(s)]
             is_single_quoted == /\ first_char = cfg.single_quote
                                 /\ last_char = cfg.single_quote
             is_double_quoted == /\ first_char = cfg.double_quote
                                 /\ last_char = cfg.double_quote
         IN  IF is_single_quoted \/ is_double_quoted
             THEN LET quote == IF is_single_quoted THEN cfg.single_quote
                               ELSE cfg.double_quote
                      inner == SubSeq(s, 2, Len(s) - 1)
                  IN  <<quote>> \o Trim(inner) \o <<quote>>
             ELSE Trim(s)

\* storage::FromArgValue for String, i32, bool and char
StorageBaseFromArgValue(base, value) ==
    CASE base = "String" -> Returned(value)
      [] base = "i32" ->
            LET parsed == ParseI32(value) IN
            IF parsed.some THEN Returned(parsed.value)
            ELSE Failed("InvalidIntValue", value)
      [] base = "bool" ->
            LET lower == ToLowercase(value) IN
            IF lower \in { <<"t", "r", "u", "e">>, <<"y", "e", "s">>,
                           <<"1">>, <<"o", "n">> }
            THEN Returned(TRUE)
            ELSE IF lower \in { <<"f", "a", "l", "s", "e">>, <<"n", "o">>,
                                <<"0">>, <<"o", "f", "f">> }
            THEN Returned(FALSE)
            ELSE Failed("InvalidBoolValue", value)
      [] base = "char" ->
            IF Len(value) = 1 THEN Returned(value[1])
            ELSE Failed("InvalidInput", value)

\* storage::FromArgValue, Option<T> included
StorageFromArgValue(ty, value) ==
    IF ~ty.option THEN StorageBaseFromArgValue(ty.base, value)
    ELSE IF value = <<>> THEN Returned(None)
    ELSE LET inner == StorageBaseFromArgValue(ty.base, value) IN
         IF inner.kind = "Ok" THEN Returned(Some(inner.value)) ELSE inner

\* the five structural characters escape is asked to escape
Structural == {"'", "\"", ",", "[", "]"}

\* the characters of the strings given to the splitters under cfg
SplitChars(cfg) ==
    {cfg.escape_char, cfg.single_quote, cfg.double_quote, cfg.delimiter, " "}

\* the characters of the strings given to escape under cfg
RawChars(cfg) == {cfg.escape_char, ",", "'", "n", "a"}

\* the characters of the strings given to smart_trim under cfg
TrimChars(cfg) == {" ", cfg.single_quote, cfg.double_quote, "a"}

InitUtil ==
    /\ \/ \E cfg \in Configs : \E s \in Strings(SplitChars(cfg), MaxSplit) :
            /\ config = cfg
            /\ \/ call = [fn |-> "split_by_commas", content |-> s]
               \/ call = [fn |-> "smart_split", s |-> s,
                          delimiter |-> cfg.delimiter,
                          config |-> TextConfigOf(cfg)]
       \/ /\ config = DefaultConfig
          /\ \/ \E ty \in Types : \E v \in ValuesOf(ty) :
                  \/ call = [fn |-> "storage_from_arg_value", ty |-> ty,
                             value |-> v]
                  \/ call = [fn |-> "from_arg_value", ty |-> ty,
                             value |-> v, config |-> None]
             \/ \E cfg \in TextProcessingConfigs, C \in SUBSET Structural :
                  \E s \in Strings(RawChars(cfg), MaxRaw) :
                      call = [fn |-> "escape", s |-> s,
                              chars_to_escape |-> C, config |-> cfg]
             \/ \E cfg \in TextProcessingConfigs :
                  \E s \in Strings(TrimChars(cfg), MaxTrim) :
                      call = [fn |-> "smart_trim", s |-> s, config |-> cfg,
                              trimmed_from |-> None]
    /\ out = NoReturn
    /\ IdleScan
    /\ IdleBatch
    /\ IdleStore
    /\ IdleLog

CallSplitByCommas ==
    /\ call.fn = "split_by_commas"
    /\ out = NoReturn
    /\ out' = SplitByCommas(config, call.content)
    /\ UNCHANGED <<config, call, scanVars, batchVars, storeVars,
                   logVars>>

CallSmartSplit ==
    /\ call.fn = "smart_split"
    /\ out = NoReturn
    /\ out' = SmartSplit(call.s, call.delimiter, call.config)
    /\ UNCHANGED <<config, call, scanVars, batchVars, storeVars,
                   logVars>>

CallStorageFromArgValue ==
    /\ call.fn = "storage_from_arg_value"
    /\ out = NoReturn
    /\ out' = StorageFromArgValue(call.ty, call.value)
    /\ UNCHANGED <<config, call, scanVars, batchVars, storeVars,
                   logVars>>

CallEscape ==
    /\ call.fn = "escape"
    /\ out = NoReturn
    /\ out' = Returned(Escape(call.s, call.chars_to_escape, call.config))
    /\ UNCHANGED <<config, call, scanVars, batchVars, storeVars,
                   logVars>>

\* the caller hands the escaped string to unescape
UnescapeEscaped ==
    /\ call.fn = "escape"
    /\ out # NoReturn
    /\ call' = [fn |-> "unescape", s |-> out.value, config |-> call.config,
                escaped_from |-> call.s,
                chars_to_escape |-> call.chars_to_escape]
    /\ out' = NoReturn
    /\ UNCHANGED <<config, scanVars, batchVars, storeVars, logVars>>

CallSmartTrim ==
    /\ call.fn = "smart_trim"
    /\ out = NoReturn
    /\ out' = Returned(SmartTrim(call.s, call.config))
    /\ UNCHANGED <<config, call, scanVars, batchVars, storeVars,
                   logVars>>

\* the caller hands the trimmed string to smart_trim once more
TrimAgain ==
    /\ call.fn = "smart_trim"
    /\ out # NoReturn
    /\ ~call.trimmed_from.some
    /\ call' = [call EXCEPT !.s = out.value, !.trimmed_from = Some(call.s)]
    /\ out' = NoReturn
    /\ UNCHANGED <<config, scanVars, batchVars, storeVars, logVars>>

NextUtil ==
    \/ CallSplitByCommas
    \/ CallSmartSplit
    \/ CallStorageFromArgValue
    \/ CallFromArgValue
    \/ CallEscape
    \/ UnescapeEscaped
    \/ CallUnescape
    \/ CallSmartTrim
    \/ TrimAgain

SpecUtil == InitUtil /\ [][NextUtil]_vars

\* two outcomes of a call: the same value, or the same error variant
SameOutcome(a, b) ==
    /\ a.kind = b.kind
    /\ a.kind = "Ok" => a.value = b.value
    /\ a.kind = "Err" => a.error = b.error

\* C25: with the same escape, quote and delimiter characters,
\* split_by_commas and smart_split agree on every string: both return the
\* same tokens in the same order, or both fail with UnclosedDelimiter.
C25_SplittersAgree ==
    /\ Returns("split_by_commas") =>
         LET other == SmartSplit(call.content, config.delimiter,
                                 TextConfigOf(config))
         IN  /\ SameOutcome(out, other)
             /\ out.kind = "Err" => out.error = "UnclosedDelimiter"
    /\ Returns("smart_split") =>
         LET other == SplitByCommas(config, call.s)
         IN  /\ SameOutcome(other, out)
             /\ out.kind = "Err" => out.error = "UnclosedDelimiter"

\* C27: for String, i32, bool, char and Option of them, storage's
\* FromArgValue and conversion's FromArgValue called with no configuration
\* return the same value, or the same error variant, for every string.
C27_StorageAndConversionAgree ==
    /\ Returns("storage_from_arg_value") =>
         SameOutcome(out, FromArgValue(call.ty, call.value, None))
    /\ Returns("from_arg_value") =>
         SameOutcome(StorageFromArgValue(call.ty, call.value), out)

\* C28: unescape inverts escape: for every string, every set of structural
\* characters to escape and every configuration, one with another escape
\* character included, unescape of the escaped string succeeds and returns
\* the string.
C28_UnescapeInvertsEscape ==
    (Returns("unescape") /\ "escaped_from" \in DOMAIN call) =>
        out = Returned(call.escaped_from)

\* C30: smart_trim is idempotent: a second call on the result of the first
\* returns that result as it is, also for a quoted value with whitespace
\* both outside and just inside its quotes.
C30_SmartTrimIsIdempotent ==
    (Returns("smart_trim") /\ call.trimmed_from.some) =>
        out = Returned(call.s)

====
